---------------------------- MODULE Spec2Model ----------------------------
(***************************************************************************)
(* A model of salt.utils.yamldumper (the representer registries of the     *)
(* dumper classes, get_dumper, dump, safe_dump) and of                     *)
(* salt.utils.ldap.AttributeValueSet.                                      *)
(*                                                                         *)
(* The dumper classes are built on PyYAML (yaml.representer, yaml.emitter) *)
(* and on salt.utils._yaml_common.InheritMapMixin; the parts of those that *)
(* the module's behaviour goes through are modelled beside the call sites. *)
(***************************************************************************)
EXTENDS Integers, Sequences, FiniteSets, TLC

(***************************************************************************)
(* Bounds of the model.                                                    *)
(***************************************************************************)
\* longest key sequence of a generated mapping document
MaxKeys == 2
\* number of add_representer / add_multi_representer calls after import
MaxRegs == 2
\* number of distinct attribute values an AttributeValueSet may hold
NumElems == 2

(***************************************************************************)
(* Classes.  Bases[c] is the base-class list of the class statement of c.  *)
(* Of PyYAML's classes only those that carry representer registries are    *)
(* kept (Emitter, Serializer, Resolver and object hold none).  "Dumper"    *)
(* and "SafeDumper" are the names bound by the try/except import: CDumper  *)
(* and CSafeDumper when libyaml is there, else Dumper and SafeDumper; both *)
(* pairs have the same representer bases and no registry of their own.     *)
(***************************************************************************)
RepoClasses ==
    {"_InheritedRepresentersMixin", "_CommonMixin", "OrderedDumper",
     "SafeOrderedDumper", "IndentedSafeOrderedDumper"}

YamlClasses ==
    {"InheritMapMixin", "BaseRepresenter", "SafeRepresenter", "Representer",
     "SafeDumper", "Dumper"}

Classes == RepoClasses \cup YamlClasses

\* Bases with the mixin written after the PyYAML base in the two class
\* statements that have both.
BasesSwapped ==
    [c \in Classes |->
        CASE c = "_InheritedRepresentersMixin" -> <<"InheritMapMixin">>
          [] c = "_CommonMixin" -> <<"_InheritedRepresentersMixin", "BaseRepresenter">>
          [] c = "OrderedDumper" -> <<"Dumper", "_CommonMixin">>
          [] c = "SafeOrderedDumper" -> <<"SafeDumper", "_CommonMixin">>
          [] c = "IndentedSafeOrderedDumper" -> <<"SafeOrderedDumper">>
          [] c = "Dumper" -> <<"Representer">>
          [] c = "SafeDumper" -> <<"SafeRepresenter">>
          [] c = "Representer" -> <<"SafeRepresenter">>
          [] c = "SafeRepresenter" -> <<"BaseRepresenter">>
          [] OTHER -> <<>>]

Bases ==
    [c \in Classes |->
        CASE c = "_InheritedRepresentersMixin" -> <<"InheritMapMixin">>
          [] c = "_CommonMixin" -> <<"_InheritedRepresentersMixin", "BaseRepresenter">>
          [] c = "OrderedDumper" -> <<"_CommonMixin", "Dumper">>
          [] c = "SafeOrderedDumper" -> <<"_CommonMixin", "SafeDumper">>
          [] c = "IndentedSafeOrderedDumper" -> <<"SafeOrderedDumper">>
          [] c = "Dumper" -> <<"Representer">>
          [] c = "SafeDumper" -> <<"SafeRepresenter">>
          [] c = "Representer" -> <<"SafeRepresenter">>
          [] c = "SafeRepresenter" -> <<"BaseRepresenter">>
          [] OTHER -> <<>>]

(***************************************************************************)
(* Python's method resolution order (C3 linearisation) of a class.         *)
(***************************************************************************)
Range(s) == {s[i] : i \in DOMAIN s}

Tl(s) == IF s = <<>> THEN <<>> ELSE Tail(s)

\* the sequences of ss that are not empty, in order
RECURSIVE NonEmpty(_)
NonEmpty(ss) ==
    IF ss = <<>> THEN <<>>
    ELSE IF Head(ss) = <<>> THEN NonEmpty(Tail(ss))
         ELSE <<Head(ss)>> \o NonEmpty(Tail(ss))

\* ss with the class h taken from the front of every sequence that starts with it
DropHead(ss, h) ==
    [i \in DOMAIN ss |-> IF Head(ss[i]) = h THEN Tail(ss[i]) ELSE ss[i]]

RECURSIVE C3Merge(_)
C3Merge(seqs) ==
    LET ss == NonEmpty(seqs)
        good(i) == \A j \in DOMAIN ss : Head(ss[i]) \notin Range(Tl(ss[j]))
        cands == {i \in DOMAIN ss : good(i)}
    IN  IF ss = <<>> \/ cands = {} THEN <<>>
        ELSE LET i == CHOOSE k \in cands : \A m \in cands : k <= m
                 h == Head(ss[i])
             IN  <<h>> \o C3Merge(DropHead(ss, h))

RECURSIVE Mro(_)
Mro(c) ==
    LET bs == Bases[c]
    IN  <<c>> \o C3Merge([i \in DOMAIN bs |-> Mro(bs[i])] \o <<bs>>)

MroOf == [c \in Classes |-> Mro(c)]


(***************************************************************************)
(* State.                                                                  *)
(*   yaml_representers[c]        the exact-type registry owned by class c  *)
(*                               (the first map of its ChainMap, or the    *)
(*                               dict in the __dict__ of a PyYAML class)   *)
(*   yaml_multi_representers[c]  the same for the multi registry           *)
(*   regs      registrations made after import (bounded by MaxRegs)        *)
(*   libyaml   whether the import of CDumper and CSafeDumper succeeded     *)
(*   res       the last call of get_dumper, dump or safe_dump and its      *)
(*             outcome                                                     *)
(*   avs       two AttributeValueSet instances, each the list of its       *)
(*             values in insertion order                                   *)
(*   eq        the last evaluation of AttributeValueSet.__eq__             *)
(***************************************************************************)
VARIABLES yaml_representers, yaml_multi_representers, regs, libyaml, res, avs, eq,
          used    \* history: a dump with one of the module's dumper classes
                  \* has been made since the import

vars == <<yaml_representers, yaml_multi_representers, regs, libyaml, res, avs, eq, used>>

(***************************************************************************)
(* Registry keys: the types of the values a document holds, "object" (the  *)
(* root of every type's __mro__) and "None", the key of the default        *)
(* representer.  "Custom" is a class nothing is registered for.            *)
(***************************************************************************)
ValueTypes ==
    {"NoneType", "str", "int", "list", "dict", "OrderedDict", "defaultdict",
     "NamespacedDictWrapper", "Custom"}

RegistryKeys == ValueTypes \cup {"object", "None"}

\* type(data).__mro__
TypeMro ==
    [t \in ValueTypes |->
        CASE t \in {"OrderedDict", "defaultdict", "NamespacedDictWrapper"} ->
                 <<t, "dict", "object">>
          [] OTHER -> <<t, "object">>]

Absent == "absent"

EmptyRegistry == [k \in RegistryKeys |-> Absent]

\* add_representer on a dict the class shares with its ancestors
AddToAll(registry, cls, key, fn) ==
    [c \in Classes |->
        IF c \in Range(MroOf[cls]) \cap RepoClasses
        THEN [registry[c] EXCEPT ![key] = fn]
        ELSE registry[c]]

\* cls.add_representer(key, fn): the entry goes into the map cls owns
AddTo(registry, cls, key, fn) == [registry EXCEPT ![cls][key] = fn]

\* the registries PyYAML's classes own when the module is imported;
\* Representer's is a copy of SafeRepresenter's with its own entries added
YamlRepresenters ==
    LET safe == [EmptyRegistry EXCEPT
                    !["NoneType"] = "represent_none",
                    !["str"] = "represent_str",
                    !["int"] = "represent_int",
                    !["list"] = "represent_list",
                    !["dict"] = "represent_dict",
                    !["None"] = "represent_undefined"]
    IN  [c \in Classes |->
            CASE c = "SafeRepresenter" -> safe
              [] c = "Representer" ->
                     [safe EXCEPT !["OrderedDict"] = "represent_ordered_dict"]
              [] OTHER -> EmptyRegistry]

YamlMultiRepresenters ==
    [c \in Classes |->
        IF c = "Representer"
        THEN [EmptyRegistry EXCEPT !["object"] = "represent_object"]
        ELSE EmptyRegistry]

\* the four registrations the module makes on _CommonMixin
ModuleRepresenters ==
    AddTo(AddTo(AddTo(AddTo(YamlRepresenters,
        "_CommonMixin", "None", "_rep_default"),
        "_CommonMixin", "OrderedDict", "_rep_ordereddict"),
        "_CommonMixin", "defaultdict", "represent_dict"),
        "_CommonMixin", "NamespacedDictWrapper", "represent_dict")

(***************************************************************************)
(* The registry a class sees: the maps of the classes of its __mro__, in   *)
(* that order, the first map holding the key deciding.                     *)
(***************************************************************************)
RECURSIVE FirstEntry(_, _, _)
FirstEntry(registry, mro, key) ==
    IF mro = <<>> THEN Absent
    ELSE IF registry[Head(mro)][key] # Absent THEN registry[Head(mro)][key]
         ELSE FirstEntry(registry, Tail(mro), key)

ChainLookup(registry, cls, key) == FirstEntry(registry, MroOf[cls], key)

\* a class that took, when it was built, a copy of what its bases held
LookupCopied(cls, key) ==
    IF yaml_representers[cls][key] # Absent THEN yaml_representers[cls][key]
    ELSE ChainLookup(ModuleRepresenters, cls, key)

Lookup(cls, key) == ChainLookup(yaml_representers, cls, key)

LookupMulti(cls, key) == ChainLookup(yaml_multi_representers, cls, key)

RECURSIVE FirstMulti(_, _)
FirstMulti(cls, types) ==
    IF types = <<>> THEN Absent
    ELSE IF LookupMulti(cls, Head(types)) # Absent THEN LookupMulti(cls, Head(types))
         ELSE FirstMulti(cls, Tail(types))

\* BaseRepresenter.represent_data's choice of the representer of a value
Dispatch(cls, type) ==
    LET types == TypeMro[type]
    IN  IF Lookup(cls, types[1]) # Absent THEN Lookup(cls, types[1])
        ELSE IF FirstMulti(cls, types) # Absent THEN FirstMulti(cls, types)
        ELSE IF LookupMulti(cls, "None") # Absent THEN LookupMulti(cls, "None")
        ELSE IF Lookup(cls, "None") # Absent THEN Lookup(cls, "None")
        ELSE "str"

(***************************************************************************)
(* Documents.  A document is a heap of Python objects and the index of its *)
(* root.  An object has a type, a text (scalars) and items (containers):   *)
(* an item of a mapping is the pair of the indices of its key and value,   *)
(* in the mapping's iteration order; an item of a list has key 0.  Two     *)
(* items naming the same index hold the same object, so a container can    *)
(* hold itself.                                                            *)
(***************************************************************************)
Obj(type, text, items) == [type |-> type, text |-> text, items |-> items]

Item(k, v) == [key |-> k, val |-> v]

Doc(root, heap) == [root |-> root, heap |-> heap]

KeyTexts == {"a", "b", "c"}

\* the text of the int held under a key
KeyVal == [k \in KeyTexts |-> CASE k = "a" -> "1" [] k = "b" -> "2" [] OTHER -> "3"]

\* Python's order of the key strings
KeyRank == [k \in KeyTexts |-> CASE k = "a" -> 1 [] k = "b" -> 2 [] OTHER -> 3]

MapTypes == {"dict", "OrderedDict", "defaultdict", "NamespacedDictWrapper"}

\* the sequences of distinct keys a mapping may have been filled in
KeySeqs ==
    UNION {{ks \in [1..n -> KeyTexts] : \A i, j \in 1..n : i # j => ks[i] # ks[j]} :
           n \in 0..MaxKeys}

\* the heap with every index in it moved up by d
Shift(heap, d) ==
    [i \in DOMAIN heap |->
        [heap[i] EXCEPT !.items =
            [j \in DOMAIN heap[i].items |->
                Item(IF heap[i].items[j].key = 0 THEN 0 ELSE heap[i].items[j].key + d,
                     heap[i].items[j].val + d)]]]

ScalarDocs ==
    {Doc(1, <<Obj(t[1], t[2], <<>>)>>) :
        t \in {<<"str", "a">>, <<"int", "1">>, <<"NoneType", "">>, <<"Custom", "">>}}

\* a mapping of type mt filled in the order ks, its values of type vt
FlatMap(mt, ks, vt) ==
    Doc(1, <<Obj(mt, "", [i \in DOMAIN ks |-> Item(2 * i, 2 * i + 1)])>>
           \o [j \in 1..(2 * Len(ks)) |->
                  IF j % 2 = 1 THEN Obj("str", ks[(j + 1) \div 2], <<>>)
                  ELSE Obj(vt, IF vt = "int" THEN KeyVal[ks[j \div 2]] ELSE "", <<>>)])

FlatMapDocs ==
    {FlatMap(mt, ks, vt) : mt \in MapTypes, ks \in KeySeqs, vt \in {"int", "Custom"}}

\* a list of n values of type vt
FlatList(n, vt) ==
    Doc(1, <<Obj("list", "", [i \in 1..n |-> Item(0, i + 1)])>>
           \o [j \in 1..n |-> Obj(vt, IF vt = "int" THEN "1" ELSE "", <<>>)])

FlatListDocs == {FlatList(n, vt) : n \in 0..2, vt \in {"int", "Custom"}}

\* the document d as the only value of a container of type ot;
\* a mapping holds it under the key "b"
Wrap(ot, d) ==
    IF ot = "list"
    THEN Doc(1, <<Obj("list", "", <<Item(0, 2)>>)>> \o Shift(d.heap, 1))
    ELSE Doc(1, <<Obj(ot, "", <<Item(2, 3)>>), Obj("str", "b", <<>>)>>
                \o Shift(d.heap, 2))

NestedDocs ==
    {Wrap(ot, d) :
        ot \in {"list", "dict", "OrderedDict"},
        d \in {FlatMap("OrderedDict", ks, "int") : ks \in KeySeqs}
              \cup {FlatList(n, "int") : n \in 1..2}
              \cup {Wrap("list", FlatList(2, "int"))}}

\* documents in which an object is held twice, or holds itself
CyclicDocs ==
    {Doc(1, <<Obj("list", "", <<Item(0, 1)>>)>>),
     Doc(1, <<Obj("list", "", <<Item(0, 2), Item(0, 1)>>), Obj("int", "1", <<>>)>>),
     Doc(1, <<Obj("list", "", <<Item(0, 2)>>),
              Obj("OrderedDict", "", <<Item(3, 1)>>), Obj("str", "a", <<>>)>>)}
    \cup {Doc(1, <<Obj(mt, "", <<Item(2, 1)>>), Obj("str", "a", <<>>)>>) :
             mt \in {"dict", "OrderedDict", "defaultdict"}}

SharedDocs ==
    {Doc(1, <<Obj("list", "", <<Item(0, 2), Item(0, 2)>>), Obj(t, "", <<>>)>>) :
        t \in {"list", "Custom"}}

Docs == ScalarDocs \cup FlatMapDocs \cup FlatListDocs \cup NestedDocs
            \cup CyclicDocs \cup SharedDocs

\* the objects of a document that can be reached from its root
RECURSIVE ReachFrom(_, _, _)
ReachFrom(heap, todo, done) ==
    IF todo = {} THEN done
    ELSE LET i == CHOOSE x \in todo : TRUE
             kids == {heap[i].items[j].val : j \in DOMAIN heap[i].items}
                     \cup ({heap[i].items[j].key : j \in DOMAIN heap[i].items} \ {0})
         IN  ReachFrom(heap, (todo \cup kids) \ (done \cup {i}), done \cup {i})

Reachable(d, i) == ReachFrom(d.heap, {i}, {})

\* the object i of d holds itself, directly or through other objects
HoldsItself(d, i) ==
    \E j \in DOMAIN d.heap[i].items :
        i \in Reachable(d, d.heap[i].items[j].val)

IsCyclic(d) == \E i \in Reachable(d, d.root) : HoldsItself(d, i)

(***************************************************************************)
(* Nodes.  kind is "scalar", "seq", "map" or "alias"; an alias stands for  *)
(* the node already made for the object oid (the representer returns that  *)
(* same node again, and the serializer writes it as an alias).  oid is the *)
(* index of the object the node is remembered under in                     *)
(* represented_objects, 0 if under none.  An entry of a seq has NoNode as  *)
(* its key.                                                                *)
(***************************************************************************)
NullTag == "tag:yaml.org,2002:null"
StrTag == "tag:yaml.org,2002:str"
IntTag == "tag:yaml.org,2002:int"
SeqTag == "tag:yaml.org,2002:seq"
MapTag == "tag:yaml.org,2002:map"
OrderedDictTag == "tag:yaml.org,2002:python/object/apply:collections.OrderedDict"
ObjectTag == "tag:yaml.org,2002:python/object"

Node(kind, tag, text, flow, oid, items) ==
    [kind |-> kind, tag |-> tag, text |-> text, flow |-> flow, oid |-> oid,
     items |-> items]

NoNode == Node("none", "", "", FALSE, 0, <<>>)

Entry(k, v) == [key |-> k, val |-> v]

\* what a representer call gives: the node, represented_objects' keys, and
\* the exception raised ("" when none)
Out(node, seen, err) == [node |-> node, seen |-> seen, err |-> err]

\* SafeRepresenter.ignore_aliases
IgnoreAliases(obj) == obj.type \in {"NoneType", "str", "int"}

\* the representers that make scalar nodes
ScalarRepresenters ==
    {"represent_none", "represent_str", "represent_int", "_rep_default", "str"}

\* a node is a scalar with no style (an alias is the node it stands for)
PlainScalar(n) == n.kind = "scalar" \/ (n.kind = "alias" /\ n.text = "scalar")

\* represent_sequence's and represent_mapping's choice of flow_style
FlowStyle(opts, entries) ==
    IF opts.default_flow_style # "None" THEN opts.default_flow_style = "True"
    ELSE \A i \in DOMAIN entries :
            /\ PlainScalar(entries[i].val)
            /\ (entries[i].key.kind # "none" => PlainScalar(entries[i].key))

\* sorted(mapping): the items in the order of their keys
SortedItems(heap, items) ==
    LET rank(i) == KeyRank[heap[items[i].key].text]
        pos(i) == Cardinality({j \in DOMAIN items : rank(j) < rank(i)}) + 1
    IN  [p \in DOMAIN items |-> items[CHOOSE i \in DOMAIN items : pos(i) = p]]

\* represent_dict on a mapping: represent_mapping sorts mapping.items()
\* when sort_keys is set
DictItems(opts, heap, items) ==
    IF opts.sort_keys THEN SortedItems(heap, items) ELSE items

(***************************************************************************)
(* BaseRepresenter.represent_data on object i of heap, with the dumper     *)
(* class cls and the options opts; seen holds the keys of                  *)
(* represented_objects.                                                    *)
(***************************************************************************)
RECURSIVE RepresentData(_, _, _, _, _)
RECURSIVE RepresentItems(_, _, _, _, _)

RepresentItems(cls, opts, heap, items, seen) ==
    IF items = <<>> THEN [entries |-> <<>>, seen |-> seen, err |-> ""]
    ELSE LET it == Head(items)
             k == IF it.key = 0 THEN Out(NoNode, seen, "")
                  ELSE RepresentData(cls, opts, heap, it.key, seen)
             v == RepresentData(cls, opts, heap, it.val, k.seen)
             rest == RepresentItems(cls, opts, heap, Tail(items), v.seen)
         IN  IF k.err # "" THEN [entries |-> <<>>, seen |-> k.seen, err |-> k.err]
             ELSE IF v.err # "" THEN [entries |-> <<>>, seen |-> v.seen, err |-> v.err]
             ELSE [entries |-> <<Entry(k.node, v.node)>> \o rest.entries,
                   seen |-> rest.seen, err |-> rest.err]

\* represent_sequence / represent_mapping: the node is remembered before
\* the items are represented
RepresentCollection(cls, opts, heap, i, kind, tag, items, seen) ==
    LET oid == IF IgnoreAliases(heap[i]) THEN 0 ELSE i
        r == RepresentItems(cls, opts, heap, items, seen \cup ({oid} \ {0}))
    IN  Out(Node(kind, tag, "", FlowStyle(opts, r.entries), oid, r.entries),
            r.seen, r.err)

\* represent_scalar
RepresentScalar(heap, i, tag, text, seen) ==
    LET oid == IF IgnoreAliases(heap[i]) THEN 0 ELSE i
    IN  Out(Node("scalar", tag, text, FALSE, oid, <<>>), seen \cup ({oid} \ {0}), "")

\* Representer.represent_ordered_dict: a sequence holding the list of the
\* [key, value] lists
RepresentOrderedDictApply(cls, opts, heap, i, seen) ==
    LET r == RepresentItems(cls, opts, heap, heap[i].items, seen \cup {i})
        pair(e) == Node("seq", SeqTag, "",
                        FlowStyle(opts, <<Entry(NoNode, e.key), Entry(NoNode, e.val)>>),
                        0, <<Entry(NoNode, e.key), Entry(NoNode, e.val)>>)
        pairs == [j \in DOMAIN r.entries |-> Entry(NoNode, pair(r.entries[j]))]
        list == Node("seq", SeqTag, "", FlowStyle(opts, pairs), 0, pairs)
    IN  Out(Node("seq", OrderedDictTag, "",
                 FlowStyle(opts, <<Entry(NoNode, list)>>), i, <<Entry(NoNode, list)>>),
            r.seen, r.err)

\* what PyYAML does by itself for such a value: represent_undefined raises
_rep_default_raises(heap, i, seen) == Out(NoNode, seen, "RepresenterError")

\* _CommonMixin._rep_default
_rep_default(heap, i, seen) == RepresentScalar(heap, i, NullTag, "NULL", seen)

\* _rep_ordereddict handing the mapping itself to represent_dict, which
\* sorts what has an items() method
_rep_ordereddict_sorted(cls, opts, heap, i, seen) ==
    RepresentCollection(cls, opts, heap, i, "map", MapTag,
                        DictItems(opts, heap, heap[i].items), seen)

\* _CommonMixin._rep_ordereddict: list(data.items()) has no items() method,
\* so represent_mapping takes the pairs as they come
_rep_ordereddict(cls, opts, heap, i, seen) ==
    RepresentCollection(cls, opts, heap, i, "map", MapTag, heap[i].items, seen)

\* a value met again refused ("recursive objects are not allowed")
AliasRefused(fn, i, seen) == Out(NoNode, seen, "RepresenterError")

\* represent_data on an object it has a node for: that node again
AliasOf(fn, i, seen) ==
    Out(Node("alias", "", IF fn \in ScalarRepresenters THEN "scalar" ELSE "collection",
             FALSE, i, <<>>), seen, "")

RepresentData(cls, opts, heap, i, seen) ==
    LET obj == heap[i]
        fn == Dispatch(cls, obj.type)
    IN  IF ~IgnoreAliases(obj) /\ i \in seen
        THEN AliasOf(fn, i, seen)
        ELSE CASE fn = "represent_none" -> RepresentScalar(heap, i, NullTag, "null", seen)
               [] fn = "represent_str" -> RepresentScalar(heap, i, StrTag, obj.text, seen)
               [] fn = "represent_int" -> RepresentScalar(heap, i, IntTag, obj.text, seen)
               [] fn = "_rep_default" -> _rep_default(heap, i, seen)
               [] fn = "str" ->
                      \* no representer at all: ScalarNode(None, str(data))
                      Out(Node("scalar", "", obj.type, FALSE, 0, <<>>), seen, "")
               [] fn = "represent_undefined" -> Out(NoNode, seen, "RepresenterError")
               [] fn = "represent_list" ->
                      RepresentCollection(cls, opts, heap, i, "seq", SeqTag, obj.items, seen)
               [] fn = "represent_dict" ->
                      RepresentCollection(cls, opts, heap, i, "map", MapTag,
                                          DictItems(opts, heap, obj.items), seen)
               [] fn = "_rep_ordereddict" -> _rep_ordereddict(cls, opts, heap, i, seen)
               [] fn = "represent_ordered_dict" ->
                      RepresentOrderedDictApply(cls, opts, heap, i, seen)
               [] OTHER ->
                      \* represent_object: the object's state as a mapping
                      RepresentCollection(cls, opts, heap, i, "map", ObjectTag,
                                          DictItems(opts, heap, obj.items), seen)

\* Representer.represent: the node of the whole document
Represent(cls, opts, d) == RepresentData(cls, opts, d.heap, d.root, {})

(***************************************************************************)
(* The emitter's indentation.  A layout is the list of the lines of the    *)
(* block collections of a node tree: a line starts a sequence item (mark   *)
(* "-") or a mapping key (mark ":", text the key) at column col.  Scalars, *)
(* aliases, flow collections and empty collections are written inside the  *)
(* line of their parent.                                                   *)
(***************************************************************************)
\* Emitter.best_indent when the indent option is not given
BestIndent == 2

\* Emitter.indent before the first collection (None)
NoIndent == -1

\* Emitter.increase_indent
increase_indent(indent, flow, indentless) ==
    IF indent = NoIndent THEN (IF flow THEN BestIndent ELSE 0)
    ELSE IF ~indentless THEN indent + BestIndent
    ELSE indent

\* IndentedSafeOrderedDumper.increase_indent
Indented_increase_indent(indent, flow, indentless) ==
    increase_indent(indent, flow, FALSE)

\* The increase_indent the emitter of class cls runs.  Python's Emitter
\* calls self.increase_indent, which IndentedSafeOrderedDumper overrides;
\* libyaml's emitter (CEmitter, behind CSafeDumper and CDumper) keeps its
\* indentation in C and calls no method of the Python class.
EmitterIndent(cls, c_emitter, indent, flow, indentless) ==
    IF cls = "IndentedSafeOrderedDumper" /\ ~c_emitter
    THEN Indented_increase_indent(indent, flow, indentless)
    ELSE increase_indent(indent, flow, indentless)

Line(col, mark, text) == [col |-> col, mark |-> mark, text |-> text]

\* expect_node's choice between the flow and the block form
IsBlock(n) == n.kind \in {"seq", "map"} /\ ~n.flow /\ n.items # <<>>

RECURSIVE Layout(_, _, _, _, _)
RECURSIVE LayoutEntries(_, _, _, _, _)

\* the lines of the entries of a block collection whose indentation is ind
LayoutEntries(cls, c_emitter, kind, entries, ind) ==
    IF entries = <<>> THEN <<>>
    ELSE LET e == Head(entries)
             first == IF kind = "seq"
                      THEN Line(ind, "-", IF e.val.kind = "scalar" THEN e.val.text ELSE "")
                      ELSE Line(ind, ":", e.key.text)
         IN  <<first>> \o Layout(cls, c_emitter, e.val, ind, kind = "map")
                       \o LayoutEntries(cls, c_emitter, kind, Tail(entries), ind)

\* expect_block_sequence (indentless when in a mapping) and expect_block_mapping
Layout(cls, c_emitter, n, indent, mapping_context) ==
    IF ~IsBlock(n) THEN <<>>
    ELSE LayoutEntries(cls, c_emitter, n.kind, n.items,
             EmitterIndent(cls, c_emitter, indent, FALSE,
                           n.kind = "seq" /\ mapping_context))

(***************************************************************************)
(* The calls.  A call record holds the operation, its arguments and its    *)
(* outcome (name: the argument of get_dumper; doc, kwargs: the arguments   *)
(* of dump and safe_dump; cls: the class get_dumper returned or the dumper *)
(* class yaml.dump ran; passed: the keywords yaml.dump got; raised: the    *)
(* exception, "" when none; node, lines: the node tree and its layout).    *)
(* Idle is the record between calls.                                       *)
(***************************************************************************)
NoDoc == Doc(0, <<>>)

NoKwargs ==
    [Dumper |-> "absent", sort_keys |-> "absent", default_flow_style |-> "absent",
     allow_unicode |-> "absent"]

\* the keyword arguments a caller may pass: a key is absent or has a value
Kwargs ==
    [Dumper : {"absent", "OrderedDumper", "SafeOrderedDumper",
               "IndentedSafeOrderedDumper"},
     sort_keys : {"absent", "False"},
     default_flow_style : {"absent", "False"},
     allow_unicode : {"absent", "False"}]

Call(op, name, doc, kwargs, cls, passed, raised, node, lines) ==
    [op |-> op, name |-> name, fn |-> "", doc |-> doc, kwargs |-> kwargs,
     cls |-> cls, passed |-> passed, raised |-> raised, node |-> node,
     lines |-> lines]

Idle == Call("idle", "", NoDoc, NoKwargs, "", NoKwargs, "", NoNode, <<>>)

\* a registration: cls.add_representer(key, fn) or cls.add_multi_representer(key, fn)
Registration(op, cls, key, fn) ==
    [Idle EXCEPT !.op = op, !.cls = cls, !.name = key, !.fn = fn]

\* the class objects get_dumper knows by name
DumperClasses == {"OrderedDumper", "SafeOrderedDumper", "IndentedSafeOrderedDumper"}

\* the names get_dumper is asked for
DumperNames ==
    DumperClasses \cup {"Dumper", "SafeDumper", "ordereddumper", "Safe", ""}

\* get_dumper with the table's last entry naming the wrong class
get_dumper_wrong(dumper_name) ==
    CASE dumper_name = "OrderedDumper" -> "OrderedDumper"
      [] dumper_name = "SafeOrderedDumper" -> "SafeOrderedDumper"
      [] dumper_name = "IndentedSafeOrderedDumper" -> "SafeOrderedDumper"
      [] OTHER -> "None"

\* get_dumper: dict.get gives None for a name that is not a key
get_dumper(dumper_name) ==
    CASE dumper_name = "OrderedDumper" -> "OrderedDumper"
      [] dumper_name = "SafeOrderedDumper" -> "SafeOrderedDumper"
      [] dumper_name = "IndentedSafeOrderedDumper" -> "IndentedSafeOrderedDumper"
      [] OTHER -> "None"

\* yaml.dump(data, stream, **kw): Dumper defaults to yaml.Dumper, sort_keys
\* to True, default_flow_style to False.  yaml.Dumper is Python's emitter;
\* the module's dumpers run libyaml's when it was imported.
yaml_dump(op, d, kwargs, kw, c_lib) ==
    LET cls == IF kw.Dumper = "absent" THEN "Dumper" ELSE kw.Dumper
        opts == [sort_keys |-> kw.sort_keys # "False",
                 default_flow_style |->
                     IF kw.default_flow_style = "absent" THEN "False"
                     ELSE kw.default_flow_style]
        r == Represent(cls, opts, d)
    IN  IF r.err # ""
        THEN Call(op, "", d, kwargs, cls, kw, r.err, NoNode, <<>>)
        ELSE Call(op, "", d, kwargs, cls, kw, "", r.node,
                  Layout(cls, c_lib /\ cls \in DumperClasses, r.node, NoIndent, FALSE))

\* dump with a third setdefault, making OrderedDumper the default Dumper
dump_full(op, d, kwargs, kw, c_lib) ==
    yaml_dump(op, d, kwargs,
              [kw EXCEPT !.allow_unicode = IF @ = "absent" THEN "True" ELSE @,
                         !.default_flow_style = IF @ = "absent" THEN "None" ELSE @,
                         !.Dumper = IF @ = "absent" THEN "OrderedDumper" ELSE @],
              c_lib)

\* dump: the two setdefault calls, then yaml.dump
dump(op, d, kwargs, kw, c_lib) ==
    yaml_dump(op, d, kwargs,
              [kw EXCEPT !.allow_unicode = IF @ = "absent" THEN "True" ELSE @,
                         !.default_flow_style = IF @ = "absent" THEN "None" ELSE @],
              c_lib)

\* safe_dump with Dumper as a default only: the caller's Dumper is let through
safe_dump_setdefault(d, kwargs, c_lib) ==
    dump("safe_dump", d, kwargs,
         [kwargs EXCEPT !.Dumper = IF @ = "absent" THEN "SafeOrderedDumper" ELSE @],
         c_lib)

\* safe_dump: dump(data, stream, Dumper=SafeOrderedDumper, **kwargs); a
\* Dumper among kwargs is a second value for the keyword, a TypeError
safe_dump(d, kwargs, c_lib) ==
    IF kwargs.Dumper # "absent"
    THEN Call("safe_dump", "", d, kwargs, "", kwargs, "TypeError", NoNode, <<>>)
    ELSE dump("safe_dump", d, kwargs, [kwargs EXCEPT !.Dumper = "SafeOrderedDumper"],
              c_lib)

(***************************************************************************)
(* AttributeValueSet.  An instance is the list of its values in insertion  *)
(* order; avs[1] and avs[2] are two instances, and 0 stands for None.      *)
(***************************************************************************)
Elems == 1..NumElems

\* OrderedSet.add: a value that is there keeps its place
OrderedSet_add(s, e) == IF e \in Range(s) THEN s ELSE Append(s, e)

\* OrderedSet.discard
OrderedSet_discard(s, e) == SelectSeq(s, LAMBDA x : x # e)

\* __eq__ comparing the lists, as OrderedSet.__eq__ compares two ordered sets
AttributeValueSet_eq_ordered(sets, self, other) ==
    IF other = 0 THEN FALSE
    ELSE IF other = self THEN TRUE
    ELSE sets[self] = sets[other]

\* AttributeValueSet.__eq__
AttributeValueSet_eq(sets, self, other) ==
    IF other = 0 THEN FALSE
    ELSE IF other = self THEN TRUE
    ELSE Range(sets[self]) = Range(sets[other])

NoEq == [self |-> 0, other |-> 0, result |-> FALSE]

(***************************************************************************)
(* Initial state: the module has been imported.                            *)
(***************************************************************************)
Init ==
    /\ yaml_representers = ModuleRepresenters
    /\ yaml_multi_representers = YamlMultiRepresenters
    /\ regs = 0
    /\ libyaml \in BOOLEAN
    /\ res = Idle
    /\ avs = <<<<>>, <<>>>>
    /\ eq = NoEq
    /\ used = FALSE

(***************************************************************************)
(* Actions.  One call runs at a time: a call starts from Idle, and Return  *)
(* hands its outcome to the caller.                                        *)
(***************************************************************************)
GetDumper ==
    /\ res = Idle
    /\ \E name \in DumperNames :
          res' = Call("get_dumper", name, NoDoc, NoKwargs, get_dumper(name),
                      NoKwargs, "", NoNode, <<>>)
    /\ UNCHANGED <<yaml_representers, yaml_multi_representers, regs, libyaml, avs, eq, used>>

Dump ==
    /\ res = Idle
    /\ \E d \in Docs, kwargs \in Kwargs : res' = dump("dump", d, kwargs, kwargs, libyaml)
    /\ UNCHANGED <<yaml_representers, yaml_multi_representers, regs, libyaml, avs, eq, used>>

SafeDump ==
    /\ res = Idle
    /\ \E d \in Docs, kwargs \in Kwargs : res' = safe_dump(d, kwargs, libyaml)
    /\ UNCHANGED <<yaml_representers, yaml_multi_representers, regs, libyaml, avs, eq, used>>

Return ==
    /\ res # Idle
    /\ res' = Idle
    /\ UNCHANGED <<yaml_representers, yaml_multi_representers, regs, libyaml, avs, eq, used>>

\* the classes, keys and representers of the registrations made after import
RegClasses == {"_CommonMixin"} \cup DumperClasses
RegKeys == {"defaultdict", "Custom"}
RegFns == {"represent_dict", "_rep_ordereddict"}

\* the documents dumped between registrations
RegDocs ==
    CyclicDocs \cup SharedDocs
    \cup {FlatMap(mt, <<"b", "a">>, "Custom") : mt \in {"OrderedDict", "defaultdict"}}

AddRepresenter ==
    /\ res = Idle
    /\ regs < MaxRegs
    /\ \E cls \in RegClasses, key \in RegKeys, fn \in RegFns :
          /\ yaml_representers' = AddTo(yaml_representers, cls, key, fn)
          /\ res' = Registration("add_representer", cls, key, fn)
    /\ regs' = regs + 1
    /\ UNCHANGED <<yaml_multi_representers, libyaml, avs, eq, used>>

AddMultiRepresenter ==
    /\ res = Idle
    /\ regs < MaxRegs
    /\ \E cls \in RegClasses :
          /\ yaml_multi_representers' =
                 AddTo(yaml_multi_representers, cls, "dict", "represent_dict")
          /\ res' = Registration("add_multi_representer", cls, "dict", "represent_dict")
    /\ regs' = regs + 1
    /\ UNCHANGED <<yaml_representers, libyaml, avs, eq, used>>

DumpRegistered ==
    /\ res = Idle
    /\ \E d \in RegDocs, cls \in {"absent"} \cup DumperClasses :
          res' = dump("dump", d, [NoKwargs EXCEPT !.Dumper = cls],
                      [NoKwargs EXCEPT !.Dumper = cls], libyaml)
    /\ used' = (used \/ res'.cls \in DumperClasses)
    /\ UNCHANGED <<yaml_representers, yaml_multi_representers, regs, libyaml, avs, eq>>

AvsAdd ==
    /\ \E i \in 1..2, e \in Elems : avs' = [avs EXCEPT ![i] = OrderedSet_add(@, e)]
    /\ eq' = NoEq
    /\ UNCHANGED <<yaml_representers, yaml_multi_representers, regs, libyaml, res, used>>

AvsDiscard ==
    /\ \E i \in 1..2, e \in Elems : avs' = [avs EXCEPT ![i] = OrderedSet_discard(@, e)]
    /\ eq' = NoEq
    /\ UNCHANGED <<yaml_representers, yaml_multi_representers, regs, libyaml, res, used>>

AvsEq ==
    /\ \E self \in 1..2, other \in 0..2 :
          eq' = [self |-> self, other |-> other,
                 result |-> AttributeValueSet_eq(avs, self, other)]
    /\ UNCHANGED <<yaml_representers, yaml_multi_representers, regs, libyaml, res, avs, used>>

\* the module as imported: get_dumper, dump and safe_dump
Next == GetDumper \/ Dump \/ SafeDump \/ Return

Spec == Init /\ [][Next]_vars

\* registrations after import, and dumps between them
NextRegister == AddRepresenter \/ AddMultiRepresenter \/ DumpRegistered \/ Return

SpecRegister == Init /\ [][NextRegister]_vars

\* salt.utils.ldap
NextLdap == AvsAdd \/ AvsDiscard \/ AvsEq

SpecLdap == Init /\ [][NextLdap]_vars

(***************************************************************************)
(* Properties.                                                             *)
(***************************************************************************)
\* the nodes of a node tree
RECURSIVE Nodes(_)
Nodes(n) ==
    {n} \cup UNION {Nodes(n.items[j].val) \cup
                        (IF n.items[j].key.kind = "none" THEN {}
                         ELSE Nodes(n.items[j].key)) : j \in DOMAIN n.items}

\* the last call was dump or safe_dump and reached yaml.dump with one of the
\* module's dumper classes
Dumped == res.op \in {"dump", "safe_dump"} /\ res.cls \in DumperClasses

\* the node n stands for object i of the heap
NodeOf(heap, i, n) ==
    IF IgnoreAliases(heap[i]) THEN n.kind = "scalar" /\ n.text = heap[i].text
    ELSE n.oid = i

\* the type matches no exact-type entry and no multi entry of the class
Unmatched(cls, type) ==
    /\ Lookup(cls, type) = Absent
    /\ \A t \in Range(TypeMro[type]) : LookupMulti(cls, t) = Absent

\* C1: with each of the module's dumper classes, a value whose type matches
\* no exact-type and no multi representer is serialized without raising, as
\* the scalar node tagged tag:yaml.org,2002:null with the text NULL,
\* wherever in the document it stands.
C1_FallbackIsNull ==
    Dumped =>
        \A i \in Reachable(res.doc, res.doc.root) :
            Unmatched(res.cls, res.doc.heap[i].type) =>
                /\ res.raised = ""
                /\ \E n \in Nodes(res.node) : n.oid = i /\ n.kind = "scalar"
                /\ \A n \in Nodes(res.node) :
                      (n.oid = i /\ n.kind # "alias") =>
                          n = Node("scalar", NullTag, "NULL", FALSE, i, <<>>)

C1_Witness ==
    /\ res.op = "dump"
    /\ res.cls = "IndentedSafeOrderedDumper"
    /\ res.doc = FlatList(2, "Custom")
    /\ Unmatched(res.cls, "Custom")
    /\ res.raised = ""
    /\ res.node.items[2].val = Node("scalar", NullTag, "NULL", FALSE, 3, <<>>)

\* the classes of the __mro__ of cls after cls itself
Ancestors(cls) == Range(Tail(MroOf[cls]))

\* C2: a registration cls.add_representer(T, f) changes the entry for T of
\* the registry cls owns and nothing else: cls then resolves T to f, and
\* every ancestor of cls (every other class, indeed) resolves every key as
\* before and owns the registry it owned.
C2_RegisterIsLocal ==
    [][(res.op = "idle" /\ res'.op = "add_representer") =>
          /\ \A c \in Classes \ {res'.cls} :
                yaml_representers'[c] = yaml_representers[c]
          /\ \A k \in RegistryKeys \ {res'.name} :
                yaml_representers'[res'.cls][k] = yaml_representers[res'.cls][k]
          /\ ChainLookup(yaml_representers', res'.cls, res'.name) = res'.fn
          /\ \A b \in Ancestors(res'.cls), k \in RegistryKeys :
                ChainLookup(yaml_representers', b, k) =
                    ChainLookup(yaml_representers, b, k)]_vars

C2_Witness ==
    /\ res.op = "add_representer"
    /\ res.cls = "SafeOrderedDumper"
    /\ res.name = "defaultdict"
    /\ res.fn = "_rep_ordereddict"
    /\ Lookup("SafeOrderedDumper", "defaultdict") = "_rep_ordereddict"
    /\ Lookup("_CommonMixin", "defaultdict") = "represent_dict"

\* the keys the module registers on _CommonMixin
SharedKeys == {"None", "OrderedDict", "defaultdict", "NamespacedDictWrapper"}

\* cls and the classes of its __mro__ that derive from _CommonMixin
Derived(cls) == {c \in Range(MroOf[cls]) : "_CommonMixin" \in Ancestors(c)}

\* C3: a class that registers nothing for a key resolves it as its base does
\* (IndentedSafeOrderedDumper as SafeOrderedDumper), and each of the three
\* dumper classes resolves the default, OrderedDict, defaultdict and
\* NamespacedDictWrapper keys to the entry of _CommonMixin as long as no
\* class between it and _CommonMixin registered the key itself; none of the
\* three owns such an entry when the module is imported.
C3_InheritedEntries ==
    /\ \A k \in RegistryKeys :
          yaml_representers["IndentedSafeOrderedDumper"][k] = Absent =>
              Lookup("IndentedSafeOrderedDumper", k) = Lookup("SafeOrderedDumper", k)
    /\ \A c \in DumperClasses, k \in SharedKeys :
          /\ yaml_representers["_CommonMixin"][k] # Absent
          /\ (\A x \in Derived(c) : yaml_representers[x][k] = Absent) =>
                Lookup(c, k) = yaml_representers["_CommonMixin"][k]
          /\ (regs = 0) => (yaml_representers[c][k] = Absent)

C3_Witness ==
    /\ res.op = "dump"
    /\ res.cls = "OrderedDumper"
    /\ res.doc = FlatMap("OrderedDict", <<"b", "a">>, "Custom")
    /\ res.node.tag = MapTag
    /\ regs > 0
    /\ yaml_representers["_CommonMixin"]["defaultdict"] = "_rep_ordereddict"
    /\ \A c \in DumperClasses :
          /\ \A k \in SharedKeys : yaml_representers[c][k] = Absent
          /\ Lookup(c, "defaultdict") = "_rep_ordereddict"
          /\ Lookup(c, "OrderedDict") = "_rep_ordereddict"
          /\ Lookup(c, "None") = "_rep_default"

\* C4 as claimed: safe_dump completes, with SafeOrderedDumper, whatever the
\* caller's keywords are, a Dumper among them included.
C4_Claimed ==
    res.op = "safe_dump" => (res.raised = "" /\ res.cls = "SafeOrderedDumper")

\* C4, amended: safe_dump never serializes with another class than
\* SafeOrderedDumper.  Without a Dumper among the caller's keywords it
\* completes, for every value, and yaml.dump is run with
\* Dumper=SafeOrderedDumper; with one, the call raises TypeError (two values
\* for the keyword) and nothing is serialized.
C4_SafeDumpOnlySafe ==
    res.op = "safe_dump" =>
        IF res.kwargs.Dumper = "absent"
        THEN /\ res.raised = ""
             /\ res.cls = "SafeOrderedDumper"
             /\ res.passed.Dumper = "SafeOrderedDumper"
             /\ res.node # NoNode
        ELSE /\ res.raised = "TypeError"
             /\ res.cls = ""
             /\ res.node = NoNode

C4_Witness ==
    /\ res.op = "safe_dump"
    /\ res.kwargs.Dumper = "OrderedDumper"
    /\ res.doc = FlatMap("OrderedDict", <<"b", "a">>, "int")
    /\ res.raised = "TypeError"

\* C5 as claimed: dump without a Dumper keyword serializes with
\* OrderedDumper, so an OrderedDict comes out as a plain map.
C5_Claimed ==
    (res.op = "dump" /\ res.kwargs.Dumper = "absent") =>
        /\ res.cls = "OrderedDumper"
        /\ (res.doc.heap[res.doc.root].type = "OrderedDict" => res.node.tag = MapTag)

\* C5, amended: dump without a Dumper keyword passes none on, so yaml.dump
\* serializes with its own default, yaml.Dumper, which the representers of
\* _CommonMixin are not registered on: an OrderedDict is written by
\* PyYAML's represent_ordered_dict (tag python/object/apply:
\* collections.OrderedDict), a defaultdict, a NamespacedDictWrapper or an
\* unregistered type by represent_object.  A Dumper the caller names is the
\* class used.
C5_DumpDefaultsToYamlDumper ==
    res.op = "dump" =>
        IF res.kwargs.Dumper = "absent"
        THEN /\ res.passed.Dumper = "absent"
             /\ res.cls = "Dumper"
             /\ LET t == res.doc.heap[res.doc.root].type
                IN  /\ t = "OrderedDict" => res.node.tag = OrderedDictTag
                    /\ t \in {"defaultdict", "NamespacedDictWrapper", "Custom"} =>
                          res.node.tag = ObjectTag
        ELSE res.cls = res.kwargs.Dumper

C5_Witness ==
    /\ res.op = "dump"
    /\ res.kwargs = NoKwargs
    /\ res.doc = FlatMap("OrderedDict", <<"b", "a">>, "int")
    /\ res.cls = "Dumper"
    /\ res.node.tag = OrderedDictTag

\* C6: get_dumper gives the class of the name for each of the three names
\* OrderedDumper, SafeOrderedDumper and IndentedSafeOrderedDumper (three
\* different classes), and None, without raising, for every other name.
C6_GetDumper ==
    /\ res.op = "get_dumper" =>
          /\ res.raised = ""
          /\ res.name \in DumperClasses => res.cls = res.name
          /\ res.name \notin DumperClasses => res.cls = "None"
    /\ \A a, b \in DumperClasses :
          a # b => (get_dumper(a) # get_dumper(b) /\ get_dumper(a) # "None")

C6_Witness ==
    /\ res.op = "get_dumper"
    /\ res.name = "IndentedSafeOrderedDumper"
    /\ res.cls = "IndentedSafeOrderedDumper"

C6_WitnessNotFound ==
    res.op = "get_dumper" /\ res.name = "ordereddumper" /\ res.cls = "None"

\* the entries of node n are the items of object i, pair by pair
SameOrder(heap, i, n) ==
    /\ Len(n.items) = Len(heap[i].items)
    /\ \A j \in DOMAIN n.items :
          /\ NodeOf(heap, heap[i].items[j].key, n.items[j].key)
          /\ NodeOf(heap, heap[i].items[j].val, n.items[j].val)

\* C7: with each of the module's dumper classes and whatever sort_keys is,
\* the node of every OrderedDict of the document, the root or one held by
\* another container, is a map node whose entries are the OrderedDict's
\* items in its iteration order.
C7_OrderKept ==
    Dumped =>
        /\ res.raised = ""
        /\ \A i \in Reachable(res.doc, res.doc.root) :
              res.doc.heap[i].type = "OrderedDict" =>
                  /\ \E n \in Nodes(res.node) : n.oid = i /\ n.kind # "alias"
                  /\ \A n \in Nodes(res.node) :
                        (n.oid = i /\ n.kind # "alias") =>
                            /\ n.kind = "map"
                            /\ n.tag = MapTag
                            /\ SameOrder(res.doc.heap, i, n)

C7_Witness ==
    /\ res.op = "safe_dump"
    /\ res.kwargs = NoKwargs
    /\ res.doc = Wrap("dict", FlatMap("OrderedDict", <<"b", "a">>, "int"))
    /\ res.node.items[1].val.kind = "map"
    /\ res.node.items[1].val.items[1].key.text = "b"
    /\ res.node.items[1].val.items[2].key.text = "a"

Made(n, i) == {x \in Nodes(n) : x.oid = i /\ x.kind # "alias"}
AliasesOf(n, i) == {x \in Nodes(n) : x.oid = i /\ x.kind = "alias"}

C9_EqIgnoresOrder ==
    /\ eq.self # 0 =>
          /\ eq.other = 0 => ~eq.result
          /\ eq.other = eq.self => eq.result
          /\ eq.other # 0 =>
                (eq.result <=> Range(avs[eq.self]) = Range(avs[eq.other]))
    /\ \A a, b \in 1..2 :
          AttributeValueSet_eq(avs, a, b) = AttributeValueSet_eq(avs, b, a)

C9_Witness ==
    /\ eq.self = 1
    /\ eq.other = 2
    /\ Len(avs[1]) = 2
    /\ avs[1] # avs[2]
    /\ Range(avs[1]) = Range(avs[2])
    /\ eq.result

\* the columns by which a block sequence that is the value of a mapping key
\* stands right of that key, over the lines of a layout
SequenceOffsets(lines) ==
    {lines[j + 1].col - lines[j].col :
        j \in {k \in 1..(Len(lines) - 1) :
                  lines[k].mark = ":" /\ lines[k + 1].mark = "-"}}

\* what SafeOrderedDumper makes of the arguments of a call
AsSafe(call) ==
    yaml_dump(call.op, call.doc, call.kwargs,
              [call.passed EXCEPT !.Dumper = "SafeOrderedDumper"], libyaml)

\* C10: IndentedSafeOrderedDumper gives the node tree SafeOrderedDumper
\* gives, and differs in the layout only: a block sequence that is the
\* value of a mapping key stands one indentation level right of the key,
\* where SafeOrderedDumper writes it in the key's column.
C10_IndentedIsSafePlusIndent ==
    (res.op = "dump" /\ res.cls = "IndentedSafeOrderedDumper") =>
        /\ res.raised = AsSafe(res).raised
        /\ res.node = AsSafe(res).node
        /\ \A k \in RegistryKeys :
              Lookup("IndentedSafeOrderedDumper", k) = Lookup("SafeOrderedDumper", k)
        /\ SequenceOffsets(AsSafe(res).lines) \subseteq {0}
        /\ SequenceOffsets(res.lines) \subseteq {BestIndent}

\* the part of C10 that holds with either emitter: the same representers,
\* the same node tree
C10_SameContent ==
    (res.op = "dump" /\ res.cls = "IndentedSafeOrderedDumper") =>
        /\ res.raised = AsSafe(res).raised
        /\ res.node = AsSafe(res).node
        /\ (~libyaml => SequenceOffsets(res.lines) \subseteq {BestIndent})
        /\ (libyaml => res.lines = AsSafe(res).lines)

C10_Witness ==
    /\ res.op = "dump"
    /\ res.cls = "IndentedSafeOrderedDumper"
    /\ libyaml
    /\ res.doc = Wrap("dict", Wrap("list", FlatList(2, "int")))
    /\ SequenceOffsets(res.lines) = {0}


\* one registry laid over another: the entries of top, and the entries of
\* under for the keys top lacks
Overlay(under, top) ==
    [k \in RegistryKeys |-> IF top[k] # Absent THEN top[k] ELSE under[k]]

\* the merge of the registries the classes of mro own now, built from the
\* farthest class towards the nearest
RECURSIVE Merged(_, _)
Merged(registry, mro) ==
    IF mro = <<>> THEN EmptyRegistry
    ELSE Overlay(Merged(registry, Tail(mro)), registry[Head(mro)])

\* the merge of the ancestors' registries, the class's own entries on top
Effective(registry, cls) ==
    Overlay(Merged(registry, Tail(MroOf[cls])), registry[cls])

\* the classes of the __mro__ of cls before its first occurrence of b
Before(cls, b) ==
    {MroOf[cls][j] : j \in {j \in DOMAIN MroOf[cls] :
                               \A i \in 1..j : MroOf[cls][i] # b}}

\* the texts of the keys of a map node, in the node's order
KeysOf(n) == [j \in DOMAIN n.items |-> n.items[j].key.text]

=============================================================================
